---- MODULE Spec2Model ----
(***************************************************************************)
(* bevy_pancam: the two per-frame systems camera_movement (drag panning)   *)
(* and camera_zoom (wheel zoom) of src/src/lib.rs, run once per frame by   *)
(* the host scheduler in either order.                                     *)
(*                                                                         *)
(* Numbers.  The program computes in f32.  Here every f32 is an exact      *)
(* rational <<n, d>> in lowest terms with d > 0, and +, -, *, /, max, min  *)
(* are the exact operations: rounding, infinities and NaN are outside the  *)
(* model.  An Option<T> is a sequence: <<>> is None and <<v>> is Some(v).  *)
(***************************************************************************)
EXTENDS Integers, Sequences, FiniteSets, TLC

\* ---------------------------------------------------------------- bounds
\* Number of frames the host scheduler runs.
MaxFrames == 3

\* ------------------------------------------------------------ f32 values
Abs(a) == IF a < 0 THEN -a ELSE a

RECURSIVE GCD(_, _)
GCD(a, b) == IF b = 0 THEN a ELSE GCD(b, a % b)

\* the f32 value n/d
Q(n, d) ==
    LET g == GCD(Abs(n), Abs(d))
        s == IF d < 0 THEN -1 ELSE 1
    IN  <<(s * n) \div g, (s * d) \div g>>

F(n) == <<n, 1>>

\* Exact +, -, *, /.  The operands are in lowest terms; common factors are
\* divided out before multiplying so that intermediate integers stay small.
Add(a, b) ==
    LET g == GCD(a[2], b[2])
    IN  Q(a[1] * (b[2] \div g) + b[1] * (a[2] \div g), (a[2] \div g) * b[2])
Neg(a) == <<-a[1], a[2]>>
Sub(a, b) == Add(a, Neg(b))
Mul(a, b) ==
    LET g == GCD(Abs(a[1]), b[2])
        h == GCD(Abs(b[1]), a[2])
    IN  <<(a[1] \div g) * (b[1] \div h), (a[2] \div h) * (b[2] \div g)>>
Div(a, b) == Mul(a, Q(b[2], b[1]))
Lt(a, b) == a[1] * b[2] < b[1] * a[2]
Le(a, b) == a[1] * b[2] <= b[1] * a[2]

\* f32::max and f32::min
FMax(a, b) == IF Lt(a, b) THEN b ELSE a
FMin(a, b) == IF Lt(b, a) THEN b ELSE a

\* ------------------------------------------------------------ Vec2, Vec3
Vec2(x, y) == <<x, y>>
VAdd(u, v) == <<Add(u[1], v[1]), Add(u[2], v[2])>>
VSub(u, v) == <<Sub(u[1], v[1]), Sub(u[2], v[2])>>
VMul(u, v) == <<Mul(u[1], v[1]), Mul(u[2], v[2])>>
VDiv(u, v) == <<Div(u[1], v[1]), Div(u[2], v[2])>>
VScale(u, s) == <<Mul(u[1], s), Mul(u[2], s)>>
VONE == <<F(1), F(1)>>
VZERO == <<F(0), F(0)>>
truncate(t) == <<t[1], t[2]>>
extend(v, z) == <<v[1], v[2], z>>

\* ---------------------------------------------------------------- Option
None == <<>>
Some(v) == <<v>>
Unwrap(o) == o[1]
UnwrapOr(o, v) == IF o = <<>> THEN v ELSE o[1]

\* ------------------------------------------------------------- the world
\* Camera entities matched by the systems' queries.
Cams == {"cam_a", "cam_b"}

\* struct PanCam.  grab_buttons is a Vec, read only through iter().any().
PanCam(grab_buttons, enabled, zoom_to_cursor, min_scale, max_scale) ==
    [grab_buttons |-> grab_buttons, enabled |-> enabled,
     zoom_to_cursor |-> zoom_to_cursor, min_scale |-> min_scale,
     max_scale |-> max_scale]

\* impl Default for PanCam
DefaultPanCam ==
    PanCam({"Left", "Right", "Middle"}, TRUE, TRUE, Q(1, 100000), None)

\* Other PanCam components an application may attach: one with both bounds
\* that only the right button drags, a disabled one, and one whose max_scale
\* is below its min_scale and that zooms about the viewport centre.
BoundedPanCam == PanCam({"Right"}, TRUE, TRUE, Q(1, 2), Some(F(2)))
DisabledPanCam ==
    PanCam({"Left", "Right", "Middle"}, FALSE, TRUE, Q(1, 2), Some(F(2)))
MisconfiguredPanCam == PanCam({"Left"}, TRUE, FALSE, F(1), Some(Q(1, 2)))

\* OrthographicProjection: the fields the systems read, and scale.
Projection(left, right, bottom, top, scale) ==
    [left |-> left, right |-> right, bottom |-> bottom, top |-> top,
     scale |-> scale]

\* Projections of a camera at start-up: window-sized extents at scale 1, and
\* half-sized extents with a scale the application has set to 4.
WindowSized == Projection(F(-400), F(400), F(-300), F(300), F(1))
Magnified == Projection(F(-200), F(200), F(-150), F(150), F(4))

\* The camera entities an application spawns: each camera's PanCam and
\* OrthographicProjection.
Scenes ==
    { [cam_a |-> [cam |-> DefaultPanCam, proj |-> WindowSized],
       cam_b |-> [cam |-> DisabledPanCam, proj |-> Magnified]],
      [cam_a |-> [cam |-> BoundedPanCam, proj |-> Magnified],
       cam_b |-> [cam |-> MisconfiguredPanCam, proj |-> WindowSized]] }

\* Transform.translation of a 2d camera at start-up.
StartTranslation == <<F(0), F(0), F(999)>>

\* Window: the fields the systems read.
Window(width, height, cursor_position) ==
    [width |-> width, height |-> height, cursor_position |-> cursor_position]

\* What Windows::get_primary() may return in a frame: no primary window, or
\* an 800x600 window with the cursor outside it or at one of two places.
CursorPositions ==
    { None, Some(Vec2(F(100), F(100))), Some(Vec2(F(110), F(105))) }
PrimaryWindows ==
    {None} \cup { Some(Window(F(800), F(600), cp)) : cp \in CursorPositions }

\* Input<MouseButton>: the sets of pressed buttons of a frame.
PressedSets == { {}, {"Left"} }

\* MouseWheel events of a frame.
MouseWheel(unit, y) == [unit |-> unit, y |-> y]
ScrollEventLists ==
    { <<>>,
      <<MouseWheel("Line", F(5))>>,
      <<MouseWheel("Pixel", F(-500))>>,
      <<MouseWheel("Line", F(1)), MouseWheel("Pixel", F(1400))>> }

\* ----------------------------------------------------------------- state
VARIABLES
    cam,            \* the PanCam component of each camera
    proj,           \* the OrthographicProjection of each camera
    pos,            \* the Transform.translation of each camera
    last_pos,       \* camera_movement's Local<Option<Vec2>>
    windows,        \* Windows::get_primary() of the current frame
    mouse_buttons,  \* pressed buttons of the current frame
    scroll_events,  \* what the EventReader<MouseWheel> yields this frame
    egui_wants,     \* egui present and wanting pointer or keyboard input
    pending,        \* the systems still to run in the current frame
    frame,          \* frames begun
    panicked,       \* a system has panicked: the application is gone
    ran,            \* history: the system that ran last
    old,            \* history: scales, translations, last_pos before it ran
    prev_cursor,    \* history: the cursor position of the previous frame
    prev_egui       \* history: egui_wants of the previous frame

vars ==
    <<cam, proj, pos, last_pos, windows, mouse_buttons, scroll_events,
      egui_wants, pending, frame, panicked, ran, old, prev_cursor,
      prev_egui>>

Snapshot ==
    [scale |-> [c \in Cams |-> proj[c].scale], translation |-> pos,
     last_pos |-> last_pos]

cursor_position == IF windows = None THEN None ELSE Unwrap(windows).cursor_position

\* ------------------------------------------------------------- camera_zoom
pixels_per_line == 100

\* one event's scroll in pixels
EventScroll(ev) ==
    IF ev.unit = "Pixel" THEN ev.y ELSE Mul(ev.y, F(pixels_per_line))

RECURSIVE SumScroll(_)
SumScroll(evs) ==
    IF evs = <<>> THEN F(0) ELSE Add(EventScroll(Head(evs)), SumScroll(Tail(evs)))

\* window.cursor_position().map(|cursor_pos| (cursor_pos / window_size) * 2. - Vec2::ONE)
NormalizedScreenPos(window) ==
    IF window.cursor_position = None THEN None
    ELSE Some(VSub(VScale(VDiv(Unwrap(window.cursor_position),
                               Vec2(window.width, window.height)), F(2)),
                   VONE))

\* proj.scale * (1. + -scroll * 0.001)
ZoomInverted(scale, scroll) ==
    Mul(scale, Add(F(1), Mul(scroll, Q(1, 1000))))
Zoomed(scale, scroll) ==
    Mul(scale, Add(F(1), Mul(Neg(scroll), Q(1, 1000))))

\* .max(cam.min_scale), then .min(max_scale) if there is one
ClampNoMax(c, scale) == FMax(scale, c.min_scale)
ClampMinLast(c, scale) ==
    IF c.max_scale = None THEN FMax(scale, c.min_scale)
    ELSE FMax(FMin(scale, Unwrap(c.max_scale)), c.min_scale)
Clamp(c, scale) ==
    LET s == FMax(scale, c.min_scale)
    IN  IF c.max_scale = None THEN s ELSE FMin(s, Unwrap(c.max_scale))

\* the translation that keeps the world point under the cursor in place
Anchor(p, t, mnsp, old_scale, new_scale) ==
    LET proj_size == Vec2(p.right, p.top)
        mouse_world_pos ==
            VAdd(truncate(t), VScale(VMul(mnsp, proj_size), old_scale))
    IN  extend(VSub(mouse_world_pos,
                    VScale(VMul(mnsp, proj_size), new_scale)),
               t[3])

\* if cam.enabled
ZoomAll(c) == TRUE
ZoomApplies(c) == c.enabled

\* the body of the loop over the query, for one camera
ZoomCameraAnchorThenClamp(c, p, t, mnsp, scroll) ==
    IF ZoomApplies(c)
    THEN LET old_scale == p.scale
             raw_scale == Zoomed(p.scale, scroll)
         IN  [scale |-> Clamp(c, raw_scale),
              translation |->
                  IF mnsp # None /\ c.zoom_to_cursor
                  THEN Anchor(p, t, Unwrap(mnsp), old_scale, raw_scale)
                  ELSE t]
    ELSE [scale |-> p.scale, translation |-> t]
ZoomCamera(c, p, t, mnsp, scroll) ==
    IF ZoomApplies(c)
    THEN LET old_scale == p.scale
             new_scale == Clamp(c, Zoomed(p.scale, scroll))
         IN  [scale |-> new_scale,
              translation |->
                  IF mnsp # None /\ c.zoom_to_cursor
                  THEN Anchor(p, t, Unwrap(mnsp), old_scale, new_scale)
                  ELSE t]
    ELSE [scale |-> p.scale, translation |-> t]

\* how one run of camera_zoom ends
ZoomOutcome ==
    IF egui_wants THEN "egui"
    ELSE IF SumScroll(scroll_events) = F(0) THEN "no_scroll"
    ELSE IF windows = None THEN "panic"
    ELSE "applied"

camera_zoom ==
    /\ "camera_zoom" \in pending
    /\ pending' = pending \ {"camera_zoom"}
    /\ ran' = "camera_zoom"
    /\ old' = Snapshot
    /\ panicked' = (ZoomOutcome = "panic")
    /\ IF ZoomOutcome = "applied"
       THEN LET scroll == SumScroll(scroll_events)
                mnsp == NormalizedScreenPos(Unwrap(windows))
                z == [c \in Cams |-> ZoomCamera(cam[c], proj[c], pos[c], mnsp, scroll)]
            IN  /\ proj' = [c \in Cams |-> [proj[c] EXCEPT !.scale = z[c].scale]]
                /\ pos' = [c \in Cams |-> z[c].translation]
       ELSE UNCHANGED <<proj, pos>>
    /\ UNCHANGED <<cam, last_pos, windows, mouse_buttons, scroll_events,
                   egui_wants, frame, prev_cursor, prev_egui>>

\* --------------------------------------------------------- camera_movement
\* current_pos - last_pos.unwrap_or(current_pos)
DeltaFromOrigin(current_pos, lp) == VSub(current_pos, UnwrapOr(lp, VZERO))
Delta(current_pos, lp) == VSub(current_pos, UnwrapOr(lp, current_pos))

\* cam.enabled && cam.grab_buttons.iter().any(|btn| mouse_buttons.pressed(*btn))
Grabs(c, pressed) == c.enabled /\ c.grab_buttons \cap pressed # {}

\* Vec2::new(width / (right - left), height / (top - bottom)) * projection.scale
ScalingNoScale(window, p) ==
    Vec2(Div(window.width, Sub(p.right, p.left)),
         Div(window.height, Sub(p.top, p.bottom)))
Scaling(window, p) ==
    VScale(Vec2(Div(window.width, Sub(p.right, p.left)),
                Div(window.height, Sub(p.top, p.bottom))),
           p.scale)

\* transform.translation -= (delta * scaling).extend(0.)
Pan(t, delta, scaling) ==
    LET d == VMul(delta, scaling)
    IN  <<Sub(t[1], d[1]), Sub(t[2], d[2]), Sub(t[3], F(0))>>

\* the body of the loop over the query, for one camera
MoveCamera(c, p, t, window, pressed, delta) ==
    IF Grabs(c, pressed) THEN Pan(t, delta, Scaling(window, p)) ELSE t

\* how one run of camera_movement ends
MovementOutcome ==
    IF egui_wants THEN "egui"
    ELSE IF windows = None THEN "panic"
    ELSE IF cursor_position = None THEN "no_cursor"
    ELSE "applied"

\* last_pos when camera_movement returns
ForgetWithoutCursor(outcome, lp, cp) ==
    IF outcome = "applied" THEN cp ELSE None
KeepOnEgui(outcome, lp, cp) ==
    IF outcome = "applied" THEN cp ELSE lp
Remember(outcome, lp, cp) ==
    IF outcome = "egui" THEN None
    ELSE IF outcome = "applied" THEN cp
    ELSE lp

camera_movement ==
    /\ "camera_movement" \in pending
    /\ pending' = pending \ {"camera_movement"}
    /\ ran' = "camera_movement"
    /\ old' = Snapshot
    /\ panicked' = (MovementOutcome = "panic")
    /\ last_pos' = Remember(MovementOutcome, last_pos, cursor_position)
    /\ IF MovementOutcome = "applied"
       THEN LET window == Unwrap(windows)
                current_pos == Unwrap(window.cursor_position)
                delta == Delta(current_pos, last_pos)
            IN  pos' = [c \in Cams |->
                           MoveCamera(cam[c], proj[c], pos[c], window,
                                      mouse_buttons, delta)]
       ELSE UNCHANGED pos
    /\ UNCHANGED <<cam, proj, windows, mouse_buttons, scroll_events,
                   egui_wants, frame, prev_cursor, prev_egui>>

\* ------------------------------------------------------------ the schedule
\* PanCamPlugin::build adds both systems; the host gathers a frame's input
\* and then runs each system once, in either order.
BeginFrame ==
    /\ pending = {}
    /\ ~panicked
    /\ frame < MaxFrames
    /\ frame' = frame + 1
    /\ pending' = {"camera_movement", "camera_zoom"}
    /\ windows' \in PrimaryWindows
    /\ mouse_buttons' \in PressedSets
    /\ scroll_events' \in ScrollEventLists
    /\ egui_wants' \in BOOLEAN
    /\ prev_cursor' = cursor_position
    /\ prev_egui' = egui_wants
    /\ ran' = "none"
    /\ old' = Snapshot
    /\ UNCHANGED <<cam, proj, pos, last_pos, panicked>>

RunMovement == ~panicked /\ camera_movement
RunZoom == ~panicked /\ camera_zoom

Init ==
    /\ \E scene \in Scenes :
          /\ cam = [c \in Cams |-> scene[c].cam]
          /\ proj = [c \in Cams |-> scene[c].proj]
    /\ pos = [c \in Cams |-> StartTranslation]
    /\ last_pos = None
    /\ windows = None
    /\ mouse_buttons = {}
    /\ scroll_events = <<>>
    /\ egui_wants = FALSE
    /\ pending = {}
    /\ frame = 0
    /\ panicked = FALSE
    /\ ran = "none"
    /\ old = Snapshot
    /\ prev_cursor = None
    /\ prev_egui = FALSE

Next == BeginFrame \/ RunMovement \/ RunZoom

Spec == Init /\ [][Next]_vars

\* ------------------------------------------------------------ properties
\* In a state with ran = "camera_zoom" (or "camera_movement") that system
\* has just returned: old holds what it found, the frame's input is what it
\* read, and ZoomOutcome (MovementOutcome) is how it ended.
ZoomRan == ran = "camera_zoom"
MovementRan == ran = "camera_movement"
Scroll == SumScroll(scroll_events)
Positive(a) == Lt(F(0), a)
Negative(a) == Lt(a, F(0))

\* min_scale > 0 and max_scale absent or >= min_scale
WellFormed(c) ==
    /\ Positive(c.min_scale)
    /\ c.max_scale = None \/ Le(c.min_scale, Unwrap(c.max_scale))
\* scale within [min_scale, max_scale], or [min_scale, infinity)
InBounds(c, scale) ==
    /\ Le(c.min_scale, scale)
    /\ c.max_scale = None \/ Le(scale, Unwrap(c.max_scale))
\* scale is one of the camera's bounds
AtBound(c, scale) ==
    scale = c.min_scale \/ (c.max_scale # None /\ scale = Unwrap(c.max_scale))
CamerasUntouched ==
    /\ pos = old.translation
    /\ \A c \in Cams : proj[c].scale = old.scale[c]

\* C1  Zoom clamping: when camera_zoom has applied a nonzero scroll, every
\* enabled camera with min_scale > 0 and max_scale absent or >= min_scale
\* has its scale within [min_scale, max_scale], whatever it was before.
ZoomClamping ==
    (ZoomRan /\ ZoomOutcome = "applied") =>
        \A c \in Cams :
            (cam[c].enabled /\ WellFormed(cam[c])) =>
                InBounds(cam[c], proj[c].scale)

\* C1 witness: a scale above max_scale has been brought back to max_scale.
ZoomClampingWitness ==
    /\ ZoomRan /\ ZoomOutcome = "applied"
    /\ \E c \in Cams :
          /\ cam[c].enabled /\ WellFormed(cam[c])
          /\ cam[c].max_scale # None
          /\ Lt(Unwrap(cam[c].max_scale), old.scale[c])
          /\ proj[c].scale = Unwrap(cam[c].max_scale)

\* C2  Disabled camera invariance: neither system changes the translation
\* or the scale of a camera whose PanCam.enabled is false.
DisabledCameraInvariance ==
    (ZoomRan \/ MovementRan) =>
        \A c \in Cams :
            ~cam[c].enabled =>
                /\ pos[c] = old.translation[c]
                /\ proj[c].scale = old.scale[c]

\* C2 witness: camera_movement has dragged an enabled camera while a grab
\* button of a disabled camera was pressed, and left the disabled one alone.
DisabledCameraWitness ==
    /\ MovementRan /\ MovementOutcome = "applied"
    /\ \E c, e \in Cams :
          /\ ~cam[c].enabled
          /\ cam[c].grab_buttons \cap mouse_buttons # {}
          /\ pos[c] = old.translation[c]
          /\ cam[e].enabled
          /\ pos[e] # old.translation[e]

WorldPoint(t, p, pr, scale) ==
    VAdd(truncate(t), VScale(VMul(p, Vec2(pr.right, pr.top)), scale))

\* C4  Zoom-to-cursor fixed point: after camera_zoom has applied a scroll
\* with the cursor at normalized position p, for every enabled camera with
\* zoom_to_cursor the world point under p is the same for the old
\* translation and scale as for the new translation and the final, clamped
\* scale, and z is unchanged.
ZoomToCursorFixedPoint ==
    (ZoomRan /\ ZoomOutcome = "applied" /\ cursor_position # None) =>
        LET p == Unwrap(NormalizedScreenPos(Unwrap(windows)))
        IN  \A c \in Cams :
                (cam[c].enabled /\ cam[c].zoom_to_cursor) =>
                    /\ WorldPoint(old.translation[c], p, proj[c], old.scale[c])
                           = WorldPoint(pos[c], p, proj[c], proj[c].scale)
                    /\ pos[c][3] = old.translation[c][3]

\* C4 witness: the zoom was clamped (the final scale is not the zoomed
\* one), the scale changed and the translation was corrected.
ZoomToCursorWitness ==
    /\ ZoomRan /\ ZoomOutcome = "applied" /\ cursor_position # None
    /\ \E c \in Cams :
          /\ cam[c].enabled /\ cam[c].zoom_to_cursor
          /\ proj[c].scale # Zoomed(old.scale[c], Scroll)
          /\ proj[c].scale # old.scale[c]
          /\ pos[c] # old.translation[c]

\* C5  Pan idempotence under zero delta: when the cursor is where it was in
\* the previous frame, camera_movement changes no translation.
PanIdempotence ==
    (MovementRan /\ cursor_position # None /\ cursor_position = prev_cursor) =>
        pos = old.translation

\* C5 witness: the cursor has not moved since the previous frame, whose
\* position is remembered, and a camera is being dragged.
PanIdempotenceWitness ==
    /\ MovementRan /\ MovementOutcome = "applied"
    /\ cursor_position = prev_cursor
    /\ old.last_pos = prev_cursor
    /\ \E c \in Cams : Grabs(cam[c], mouse_buttons)

\* the pixel delta of the run: p - q, zero without a remembered q
PixelDelta ==
    IF old.last_pos = None THEN VZERO
    ELSE VSub(Unwrap(cursor_position), Unwrap(old.last_pos))

\* C6  Pan step: camera_movement moves every enabled camera with a pressed
\* grab button by -((p - q) * (width / (right - left), height / (top -
\* bottom)) * scale) in x and y, z unchanged, and no other camera.
PanStep ==
    (MovementRan /\ MovementOutcome = "applied") =>
        LET w == Unwrap(windows)
        IN  \A c \in Cams :
                IF cam[c].enabled /\ cam[c].grab_buttons \cap mouse_buttons # {}
                THEN /\ pos[c][1] =
                            Sub(old.translation[c][1],
                                Mul(Mul(PixelDelta[1],
                                        Div(w.width,
                                            Sub(proj[c].right, proj[c].left))),
                                    proj[c].scale))
                     /\ pos[c][2] =
                            Sub(old.translation[c][2],
                                Mul(Mul(PixelDelta[2],
                                        Div(w.height,
                                            Sub(proj[c].top, proj[c].bottom))),
                                    proj[c].scale))
                     /\ pos[c][3] = old.translation[c][3]
                ELSE pos[c] = old.translation[c]

\* C6 witness: the example.  Window 800x600, extents +-400/+-300, scale 1,
\* cursor (100,100) -> (110,105): the translation has shifted by (-10,-5,0).
PanStepWitness ==
    /\ MovementRan /\ MovementOutcome = "applied"
    /\ old.last_pos = Some(Vec2(F(100), F(100)))
    /\ cursor_position = Some(Vec2(F(110), F(105)))
    /\ \E c \in Cams :
          /\ Grabs(cam[c], mouse_buttons)
          /\ proj[c] = WindowSized
          /\ pos[c] = <<Add(old.translation[c][1], F(-10)),
                        Add(old.translation[c][2], F(-5)),
                        old.translation[c][3]>>

\* C7 as claimed: without a primary window, or without a cursor position,
\* camera_movement changes no camera and completes normally.
MovementNeverFails ==
    (MovementRan /\ (windows = None \/ cursor_position = None)) =>
        /\ ~panicked
        /\ pos = old.translation

\* C8 as claimed: with max_scale below min_scale, an applied zoom leaves the
\* scale at min_scale.
MisconfiguredYieldsMinScale ==
    (ZoomRan /\ ZoomOutcome = "applied") =>
        \A c \in Cams :
            (cam[c].enabled /\ cam[c].max_scale # None
                /\ Lt(Unwrap(cam[c].max_scale), cam[c].min_scale)) =>
                proj[c].scale = cam[c].min_scale

\* C8 amended: with max_scale below min_scale, an applied zoom leaves the
\* scale at max_scale.
MisconfiguredYieldsMaxScale ==
    (ZoomRan /\ ZoomOutcome = "applied") =>
        \A c \in Cams :
            (cam[c].enabled /\ cam[c].max_scale # None
                /\ Lt(Unwrap(cam[c].max_scale), cam[c].min_scale)) =>
                proj[c].scale = Unwrap(cam[c].max_scale)

\* C8 witness: a zoom has moved the scale of such a camera onto max_scale.
MisconfiguredWitness ==
    /\ ZoomRan /\ ZoomOutcome = "applied"
    /\ \E c \in Cams :
          /\ cam[c].enabled /\ cam[c].max_scale # None
          /\ Lt(Unwrap(cam[c].max_scale), cam[c].min_scale)
          /\ old.scale[c] # proj[c].scale
          /\ proj[c].scale = Unwrap(cam[c].max_scale)

\* C9  No jump after UI capture: a camera_movement run while egui wants
\* input changes no translation and clears last_pos, and the first run
\* after the capture changes no translation either.
NoJumpAfterCapture ==
    MovementRan =>
        /\ egui_wants => (pos = old.translation /\ last_pos = None)
        /\ (prev_egui /\ ~egui_wants) => pos = old.translation

\* C9 witness: the first run after a capture, with the cursor elsewhere
\* than in the captured frame and a camera being dragged.
NoJumpWitness ==
    /\ MovementRan /\ MovementOutcome = "applied"
    /\ prev_egui /\ prev_cursor # None /\ prev_cursor # cursor_position
    /\ \E c \in Cams : Grabs(cam[c], mouse_buttons)

\* C10 as claimed, for frames that have a primary window: a run without a
\* cursor position leaves last_pos and the cameras as they were; a run with
\* one, egui not capturing, sets last_pos to it.
MemoryRuleUnqualified ==
    MovementRan =>
        /\ (windows # None /\ cursor_position = None) =>
              (last_pos = old.last_pos /\ CamerasUntouched)
        /\ (cursor_position # None /\ ~egui_wants) =>
              last_pos = cursor_position

\* C10 amended: a run without a cursor position while egui is not capturing
\* leaves last_pos and the cameras as they were; a run with one, egui not
\* capturing, sets last_pos to it whatever the cameras are; so the delta of
\* a run is taken from the cursor position of the run before it when that
\* run had one and egui was not capturing.
MemoryRule ==
    /\ MovementRan =>
          /\ (cursor_position = None /\ ~egui_wants) =>
                (last_pos = old.last_pos /\ CamerasUntouched)
          /\ (cursor_position # None /\ ~egui_wants) =>
                last_pos = cursor_position
          /\ (prev_cursor # None /\ ~prev_egui) => old.last_pos = prev_cursor

\* C10 witness: a run without a cursor position has kept a remembered one.
MemoryRuleWitness ==
    /\ MovementRan /\ MovementOutcome = "no_cursor"
    /\ old.last_pos # None
    /\ last_pos = old.last_pos

====
